---- MODULE Spec2Model ----
(***************************************************************************)
(* Model of the client socket module of the CORDET Demo                    *)
(* (CrDemoMaster/CrDaClientSocket.h): one socket and one Read Buffer       *)
(* shared by several InStreams, each collecting the packets of one source. *)
(***************************************************************************)
EXTENDS Integers, Sequences, FiniteSets, TLC

(* ---------------------------------------------------------------------- *)
(* Bounds of the model and program constants                               *)
(* ---------------------------------------------------------------------- *)

\* CR_FW_NOF_INSTREAM: the number of InStreams sharing the socket
NofInStream == 2

\* largest value of the first byte of a packet arriving at the socket
MaxFirstByte == 1

\* largest number of packets pending at the socket
MaxQueue == 2

\* largest number of failing system calls in a run
MaxSysFail == 1

\* the maximum length of a packet must be smaller than this
PcktLengthLimit == 256

\* port numbers must be greater than this
MinPort == 2000

\* how far from PcktLengthLimit the maximum packet lengths tried lie
MaxLengthSpread == 2

\* number of port numbers tried
MaxPorts == 2

\* largest number of packets sent by the server socket before it is closed
MaxSent == 2

\* largest number of packets which arrive at the socket when the order of
\* delivery is observed
MaxArrivals == 3

InStreams == 1..NofInStream

\* CR_FW_INSTREAM_SRC: the packet source managed by the i-th InStream
InStreamSrc == [i \in InStreams |-> i]

\* the source tags a packet may carry: the sources of the InStreams and one
\* source which has no InStream
SrcTags == 1..(NofInStream + 1)

\* a packet is the sequence of its bytes: its first byte, which is
\* different from zero, and its source attribute
Packets == (1..MaxFirstByte) \X SrcTags

\* what an allocated Read Buffer may hold: a packet, or a packet whose
\* first byte has been cleared
BufContents == (0..MaxFirstByte) \X SrcTags

\* the Read Buffer after it has been released
Released == << >>

\* the null packet
NoPckt == << >>

(* ---------------------------------------------------------------------- *)
(* The Read Buffer                                                         *)
(* ---------------------------------------------------------------------- *)

\* the Read Buffer is full if its first byte is different from zero
IsFull(buf) == buf /= Released /\ buf[1] /= 0

\* CrFwPcktGetSrc: the source attribute of the packet held by a buffer
GetSrc(buf) == buf[2]

\* a clearing which leaves the first byte as it is
NoClear(buf) == buf

\* clearing the Read Buffer clears its first byte
ClearBuf(buf) == [buf EXCEPT ![1] = 0]

VARIABLES
    sockHandle,     \* "none" or "live": the socket handle of the module
    connected,      \* TRUE when the socket is connected to its server
    bufAllocated,   \* TRUE while a Read Buffer is allocated and referenced
    readBuffer,     \* the bytes of the Read Buffer (Released when freed)
    inQ,            \* the packets pending at the socket, oldest first
    cmpState,       \* the state of each InStream
    outcome,        \* outcome of the last initialization action of each InStream
    nSockCreate,    \* number of sockets created so far
    nSockClose,     \* number of sockets closed so far
    nBufAlloc,      \* number of Read Buffers allocated so far
    nBufFree,       \* number of Read Buffers released so far
    nFail,          \* number of failed system calls so far
    port,           \* the port number of the socket (0: not set)
    hostName,       \* the host name of the server ("": not set)
    pcktMaxLength,  \* CrFwPcktGetMaxLength: the maximum length of a packet
    rcvd,           \* the packets read from the socket so far, in order
    got,            \* the packets returned by the Packet Collect, in order
    serverClosed,   \* TRUE once the server socket has been closed
    sent,           \* the packets sent by the server socket so far, in order
    last            \* the last operation, its arguments and its results

vars == << sockHandle, connected, bufAllocated, readBuffer, inQ, cmpState,
           outcome, nSockCreate, nSockClose, nBufAlloc, nBufFree, nFail,
           port, hostName, pcktMaxLength, rcvd, got, serverClosed, sent,
           last >>

\* the port number, the host name and the maximum length of a packet
parVars == << port, hostName, pcktMaxLength >>

\* the server socket: whether it is closed and what it has sent
serverVars == << serverClosed, sent >>

\* the record of the packets read and collected, and the server socket
histVars == << rcvd, got, serverVars >>

lifeVars == << sockHandle, connected, bufAllocated, cmpState, outcome,
               nSockCreate, nSockClose, nBufAlloc, nBufFree, nFail, parVars >>

\* the record of an operation: op its name, c the calling InStream (0: none),
\* ok its boolean result, pckt the packet it returned, didRead whether it
\* read the socket, rd what the read returned (NoPckt: nothing), made
\* whether a packet instance was created, hooks the number of executions of
\* the base action of the InStream, pre the Read Buffer before the
\* operation, live whether the socket handle existed before it, reads the
\* number of reads of the socket, notify the InStreams on which
\* CrFwInStreamPcktAvail was called, writes the number of writes to the
\* socket, written the number of bytes the write accepted (-1: none, the
\* write would block)
NoOp ==
    [op |-> "none", c |-> 0, ok |-> FALSE, pckt |-> NoPckt, didRead |-> FALSE,
     rd |-> NoPckt, made |-> FALSE, hooks |-> 0, pre |-> Released,
     live |-> FALSE, reads |-> 0, notify |-> << >>, writes |-> 0,
     written |-> -1]

\* the record of operation name called by c in the current state
Op(name, c) ==
    [NoOp EXCEPT !.op = name, !.c = c, !.pre = readBuffer,
                 !.live = (sockHandle = "live")]

Init ==
    /\ sockHandle = "none"
    /\ connected = FALSE
    /\ bufAllocated = FALSE
    /\ readBuffer = Released
    /\ inQ = << >>
    /\ cmpState = [c \in InStreams |-> "created"]
    /\ outcome = [c \in InStreams |-> "none"]
    /\ nSockCreate = 0
    /\ nSockClose = 0
    /\ nBufAlloc = 0
    /\ nBufFree = 0
    /\ nFail = 0
    /\ port = MinPort + 1
    /\ hostName = "localhost"
    /\ pcktMaxLength = PcktLengthLimit - 1
    /\ rcvd = << >>
    /\ got = << >>
    /\ serverClosed = FALSE
    /\ sent = << >>
    /\ last = NoOp

(* ---------------------------------------------------------------------- *)
(* Socket Lifecycle                                                        *)
(* ---------------------------------------------------------------------- *)

\* an initialization which never finds the socket initialized
NeverInit(h) == FALSE

\* the socket has already been initialized
AlreadyInit(h) == h = "live"

\* CrDaClientSocketInitAction by InStream c; fail names the system call
\* which fails in this execution ("none", "socket" or "connect")
CrDaClientSocketInitAction(c, fail) ==
    /\ cmpState[c] = "created"
    /\ fail /= "none" => nFail < MaxSysFail
    /\ IF AlreadyInit(sockHandle)
       THEN \* only the Initialization Action of the base InStream
            /\ fail = "none"
            /\ outcome' = [outcome EXCEPT ![c] = "success"]
            /\ cmpState' = [cmpState EXCEPT ![c] = "initialized"]
            /\ last' = [Op("init", c) EXCEPT !.ok = TRUE, !.hooks = 1]
            /\ UNCHANGED << sockHandle, connected, bufAllocated, readBuffer,
                            nSockCreate, nBufAlloc, nFail >>
       ELSE \* create the Read Buffer: its content is not initialized
            /\ nBufAlloc' = nBufAlloc + 1
            /\ bufAllocated' = TRUE
            /\ readBuffer' \in BufContents
            /\ \/ /\ fail = "socket"
                  /\ nFail' = nFail + 1
                  /\ outcome' = [outcome EXCEPT ![c] = "failure"]
                  /\ last' = Op("init", c)
                  /\ UNCHANGED << sockHandle, connected, nSockCreate,
                                  cmpState >>
               \/ /\ fail = "connect"
                  /\ nFail' = nFail + 1
                  /\ nSockCreate' = nSockCreate + 1
                  /\ sockHandle' = "live"
                  /\ connected' = FALSE
                  /\ outcome' = [outcome EXCEPT ![c] = "failure"]
                  /\ last' = Op("init", c)
                  /\ UNCHANGED cmpState
               \/ /\ fail = "none"
                  /\ nSockCreate' = nSockCreate + 1
                  /\ sockHandle' = "live"
                  /\ connected' = TRUE
                  /\ outcome' = [outcome EXCEPT ![c] = "success"]
                  /\ cmpState' = [cmpState EXCEPT ![c] = "initialized"]
                  /\ last' = [Op("init", c) EXCEPT !.ok = TRUE, !.hooks = 1]
                  /\ UNCHANGED nFail
    /\ UNCHANGED << inQ, nSockClose, nBufFree, parVars >>

\* CrDaClientSocketConfigAction by InStream c: clears the Read Buffer and
\* executes the Configuration Action of the base InStream
CrDaClientSocketConfigAction(c) ==
    /\ cmpState[c] \in {"initialized", "configured"}
    /\ readBuffer' = ClearBuf(readBuffer)
    /\ cmpState' = [cmpState EXCEPT ![c] = "configured"]
    /\ last' = [Op("config", c) EXCEPT !.ok = TRUE, !.hooks = 1]
    /\ UNCHANGED << sockHandle, connected, bufAllocated, inQ, outcome,
                    nSockCreate, nSockClose, nBufAlloc, nBufFree, nFail,
                    parVars >>

\* a shutdown which never finds the socket shut down
NeverShutdown(h) == FALSE

\* the socket has already been shut down
AlreadyShutdown(h) == h /= "live"

\* CrDaClientSocketShutdownAction by InStream c
CrDaClientSocketShutdownAction(c) ==
    /\ cmpState[c] /= "shutdown"
    /\ cmpState' = [cmpState EXCEPT ![c] = "shutdown"]
    /\ last' = [Op("shutdown", c) EXCEPT !.ok = TRUE, !.hooks = 1]
    /\ IF AlreadyShutdown(sockHandle)
       THEN UNCHANGED << readBuffer, bufAllocated, nBufFree, nSockClose,
                         sockHandle, connected, inQ >>
       ELSE \* release the Read Buffer and close the socket
            /\ readBuffer' = Released
            /\ bufAllocated' = FALSE
            /\ nBufFree' = nBufFree + 1
            /\ nSockClose' = nSockClose + 1
            /\ sockHandle' = "none"
            /\ connected' = FALSE
            /\ inQ' = << >>
    /\ UNCHANGED << outcome, nSockCreate, nBufAlloc, nFail, parVars >>

\* CrDaClientSocketSetPort(n)
CrDaClientSocketSetPort(n) ==
    /\ n > MinPort
    /\ port' = n
    /\ last' = [Op("setPort", 0) EXCEPT !.ok = TRUE]
    /\ UNCHANGED << sockHandle, connected, bufAllocated, readBuffer, inQ,
                    cmpState, outcome, nSockCreate, nSockClose, nBufAlloc,
                    nBufFree, nFail, hostName, pcktMaxLength >>

\* CrDaClientSocketSetHost(name)
CrDaClientSocketSetHost(name) ==
    /\ hostName' = name
    /\ last' = [Op("setHost", 0) EXCEPT !.ok = TRUE]
    /\ UNCHANGED << sockHandle, connected, bufAllocated, readBuffer, inQ,
                    cmpState, outcome, nSockCreate, nSockClose, nBufAlloc,
                    nBufFree, nFail, port, pcktMaxLength >>

\* a check of the maximum packet length which accepts the limit itself
LengthUpToLimit(n) == n <= PcktLengthLimit

\* the maximum length of a packet is smaller than 256
LengthOk(n) == n < PcktLengthLimit

\* the port number and the server host name have been set
PortAndHostSet(p, h) == p /= 0 /\ h /= ""

\* CrDaClientSocketInitCheck by InStream c: its result is recorded in
\* last.ok and is the outcome of the check
CrDaClientSocketInitCheck(c) ==
    /\ cmpState[c] = "created"
    /\ last' = [Op("initCheck", c) EXCEPT
                   !.ok = (LengthOk(pcktMaxLength)
                           /\ PortAndHostSet(port, hostName))]
    /\ outcome' = [outcome EXCEPT ![c] =
                      IF LengthOk(pcktMaxLength) /\ PortAndHostSet(port, hostName)
                      THEN "success" ELSE "failure"]
    /\ UNCHANGED << sockHandle, connected, bufAllocated, readBuffer, inQ,
                    cmpState, nSockCreate, nSockClose, nBufAlloc, nBufFree,
                    nFail, parVars >>

(* ---------------------------------------------------------------------- *)
(* Reading the socket                                                      *)
(* ---------------------------------------------------------------------- *)

\* a packet sent by the server arrives at the connected socket
Arrive(p) ==
    /\ sockHandle = "live"
    /\ connected
    /\ Len(inQ) < MaxQueue
    /\ inQ' = Append(inQ, p)
    /\ last' = Op("arrive", 0)
    /\ UNCHANGED readBuffer
    /\ UNCHANGED lifeVars

\* the last packet sent by the server socket (none: nothing sent yet)
LastSent == IF sent = << >> THEN NoPckt ELSE sent[Len(sent)]

\* a read which takes no account of the server socket being closed
ReadOpenSocket(q) == IF q = << >> THEN NoPckt ELSE Head(q)

\* the non-blocking read: the oldest pending packet (an entire packet at
\* each read); when no data are pending at the socket, nothing while the
\* server socket is open, and the last packet sent by the server socket
\* once the server socket is closed
ReadSocket(q) ==
    IF q /= << >> THEN Head(q)
    ELSE IF serverClosed THEN LastSent ELSE NoPckt

\* what is left pending at the socket after a read
AfterRead(q) == IF q = << >> THEN q ELSE Tail(q)

\* the Read Buffer after a read which returned rd: the data read are placed
\* into the Read Buffer
StoreRead(buf, rd) == IF rd = NoPckt THEN buf ELSE rd

(* ---------------------------------------------------------------------- *)
(* Packet Available Check, Packet Collect and Poll                         *)
(* ---------------------------------------------------------------------- *)

\* a check of the Read Buffer which never finds a packet in it
NeverHolds(buf, src) == FALSE

\* a check of the Read Buffer which ignores whether it is full
HoldsSrc(buf, src) == buf /= Released /\ GetSrc(buf) = src

\* the Read Buffer is full and holds a packet from source src
HoldsPcktFrom(buf, src) == IsFull(buf) /\ GetSrc(buf) = src

\* a check of the data read which takes a read of nothing for a packet
ReadNotOther(rd, src) == rd = NoPckt \/ GetSrc(rd) = src

\* a check of the data read which ignores their source
ReadAnyPckt(rd, src) == rd /= NoPckt

\* the read returned a packet with a source attribute equal to src
ReadPcktFrom(rd, src) == rd /= NoPckt /\ GetSrc(rd) = src

\* CrDaClientSocketIsPcktAvail(pcktSrc), called by InStream c for its source
CrDaClientSocketIsPcktAvail(c) ==
    LET src == InStreamSrc[c]
        rd  == ReadSocket(inQ)
    IN  /\ IF HoldsPcktFrom(readBuffer, src)
           THEN /\ last' = [Op("isAvail", c) EXCEPT !.ok = TRUE]
                /\ UNCHANGED << readBuffer, inQ >>
           ELSE /\ readBuffer' = StoreRead(readBuffer, rd)
                /\ inQ' = AfterRead(inQ)
                /\ last' = [Op("isAvail", c) EXCEPT
                               !.ok = ReadPcktFrom(rd, src),
                               !.didRead = TRUE, !.rd = rd, !.reads = 1]
        /\ UNCHANGED lifeVars

\* a collection which leaves the Read Buffer as it is
KeepBuf(buf) == buf

\* a check of the source attribute which accepts every source
AnySrc(buf, src) == TRUE

\* the packet in the Read Buffer has a source attribute equal to src
SrcMatches(buf, src) == GetSrc(buf) = src

\* the Read Buffer holds a packet to be collected for source src: it is full
\* and its packet has a source attribute equal to src
CollectMatches(buf, src) == IsFull(buf) /\ SrcMatches(buf, src)

\* the Read Buffer after its packet has been collected
AfterCollect(buf) == ClearBuf(buf)

\* CrDaClientSocketPcktCollect(pcktSrc), called by InStream c for its source
CrDaClientSocketPcktCollect(c) ==
    LET src == InStreamSrc[c]
    IN  /\ IF CollectMatches(readBuffer, src)
           THEN \* CrFwPcktMake, copy of the Read Buffer, clear
                /\ last' = [Op("collect", c) EXCEPT !.ok = TRUE,
                               !.made = TRUE, !.pckt = readBuffer]
                /\ readBuffer' = AfterCollect(readBuffer)
           ELSE /\ last' = Op("collect", c)
                /\ UNCHANGED readBuffer
        /\ UNCHANGED inQ
        /\ UNCHANGED lifeVars

\* the InStream associated to a packet source (0: none)
InStreamOf(src) ==
    IF \E i \in InStreams : InStreamSrc[i] = src
    THEN CHOOSE i \in InStreams : InStreamSrc[i] = src
    ELSE 0

\* a notification of every InStream, whatever the source of the packet
NotifyAll(rd) ==
    IF rd = NoPckt THEN << >>
    ELSE [k \in 1..NofInStream |-> k]

\* the InStreams on which CrFwInStreamPcktAvail is called after a read which
\* returned rd: the InStream associated to the source of the packet
Notified(rd) ==
    IF rd = NoPckt \/ InStreamOf(GetSrc(rd)) = 0 THEN << >>
    ELSE << InStreamOf(GetSrc(rd)) >>

\* CrDaClientSocketPoll: a non-blocking read; if a packet is available it is
\* placed into the Read Buffer and CrFwInStreamPcktAvail is called on the
\* InStream associated to its source (recorded in last.c and last.notify)
CrDaClientSocketPoll ==
    LET rd == ReadSocket(inQ)
    IN  /\ readBuffer' = StoreRead(readBuffer, rd)
        /\ inQ' = AfterRead(inQ)
        /\ last' = [Op("poll", IF rd = NoPckt THEN 0 ELSE InStreamOf(GetSrc(rd)))
                       EXCEPT !.ok = (rd /= NoPckt), !.didRead = TRUE,
                              !.rd = rd, !.reads = 1, !.notify = Notified(rd)]
        /\ UNCHANGED lifeVars

(* ---------------------------------------------------------------------- *)
(* Packet Hand-Over                                                        *)
(* ---------------------------------------------------------------------- *)

\* what a non-blocking write of packet pckt may return: -1 when it would
\* block, otherwise the number of bytes accepted by the socket
WriteResults(pckt) == (-1)..Len(pckt)

\* a check of the write which takes a partial write for a success
WroteSome(n, pckt) == n > 0

\* the write succeeded: the socket accepted the whole packet
WriteOk(n, pckt) == n = Len(pckt)

\* CrDaClientSocketPcktHandover(pckt), the write returning n
CrDaClientSocketPcktHandover(pckt, n) ==
    /\ n \in WriteResults(pckt)
    /\ last' = [Op("handover", 0) EXCEPT !.ok = WriteOk(n, pckt),
                   !.pckt = pckt, !.writes = 1, !.written = n]
    /\ UNCHANGED << readBuffer, inQ >>
    /\ UNCHANGED lifeVars

(* ---------------------------------------------------------------------- *)
(* The module in its mode of use                                           *)
(* ---------------------------------------------------------------------- *)

\* the socket is polled and its InStreams are served once they are
\* configured and while the socket exists
InUse(c) == cmpState[c] = "configured" /\ sockHandle = "live"

Next ==
    \/ \E c \in InStreams, f \in {"none", "socket", "connect"} :
          CrDaClientSocketInitAction(c, f) /\ UNCHANGED histVars
    \/ \E c \in InStreams :
          /\ sockHandle = "live"
          /\ CrDaClientSocketConfigAction(c)
          /\ UNCHANGED histVars
    \/ \E c \in InStreams :
          CrDaClientSocketShutdownAction(c) /\ UNCHANGED histVars
    \/ \E p \in Packets : Arrive(p) /\ UNCHANGED histVars
    \/ \E c \in InStreams :
          InUse(c) /\ CrDaClientSocketIsPcktAvail(c) /\ UNCHANGED histVars
    \/ \E c \in InStreams :
          InUse(c) /\ CrDaClientSocketPcktCollect(c) /\ UNCHANGED histVars
    \/ /\ \E c \in InStreams : InUse(c)
       /\ CrDaClientSocketPoll
       /\ UNCHANGED histVars

Spec == Init /\ [][Next]_vars

\* the packets handed over by the OutStream: their source is the application
\* itself, which is the source of no InStream
OutPackets == {pckt \in Packets : InStreamOf(GetSrc(pckt)) = 0}

\* the module after every InStream has been initialized and configured:
\* the socket is connected and the Read Buffer has been cleared
InitReady ==
    /\ sockHandle = "live"
    /\ connected = TRUE
    /\ bufAllocated = TRUE
    /\ readBuffer \in {b \in BufContents : ~IsFull(b)}
    /\ inQ = << >>
    /\ cmpState = [c \in InStreams |-> "configured"]
    /\ outcome = [c \in InStreams |-> "success"]
    /\ nSockCreate = 1
    /\ nSockClose = 0
    /\ nBufAlloc = 1
    /\ nBufFree = 0
    /\ nFail = 0
    /\ port = MinPort + 1
    /\ hostName = "localhost"
    /\ pcktMaxLength = PcktLengthLimit - 1
    /\ rcvd = << >>
    /\ got = << >>
    /\ serverClosed = FALSE
    /\ sent = << >>
    /\ last = NoOp

\* the configured module used by its InStreams, by the scheduler and by an
\* OutStream
NextSend ==
    \/ \E p \in Packets : Arrive(p) /\ UNCHANGED histVars
    \/ \E c \in InStreams :
          InUse(c) /\ CrDaClientSocketIsPcktAvail(c) /\ UNCHANGED histVars
    \/ \E c \in InStreams :
          InUse(c) /\ CrDaClientSocketPcktCollect(c) /\ UNCHANGED histVars
    \/ /\ \E c \in InStreams : InUse(c)
       /\ CrDaClientSocketPoll
       /\ UNCHANGED histVars
    \/ \E pckt \in OutPackets : \E n \in WriteResults(pckt) :
          /\ \E c \in InStreams : InUse(c)
          /\ CrDaClientSocketPcktHandover(pckt, n)
          /\ UNCHANGED histVars

SpecSend == InitReady /\ [][NextSend]_vars

(* ---------------------------------------------------------------------- *)
(* The InStreams checking for a packet and collecting it at once           *)
(* ---------------------------------------------------------------------- *)

\* the packets whose source is the source of an InStream
OwnedPackets == {p \in Packets : InStreamOf(GetSrc(p)) /= 0}

\* the record of the packets read from the socket and of the packets
\* returned by the Packet Collect, after the operation recorded in last'
Track ==
    /\ rcvd' = IF last'.rd /= NoPckt THEN Append(rcvd, last'.rd) ELSE rcvd
    /\ got' = IF last'.op = "collect" /\ last'.pckt /= NoPckt
              THEN Append(got, last'.pckt) ELSE got
    /\ UNCHANGED serverVars

\* the Packet Available Check of InStream c has just returned true
AvailFor(c) == last.op = "isAvail" /\ last.ok /\ last.c = c

\* each InStream calls the Packet Available Check and, when it returns
\* true, the Packet Collect at once
NextFifo ==
    \/ \E p \in OwnedPackets :
          /\ \A c \in InStreams : ~AvailFor(c)
          /\ Len(rcvd) + Len(inQ) < MaxArrivals
          /\ Arrive(p)
          /\ UNCHANGED histVars
    \/ \E c \in InStreams :
          /\ \A d \in InStreams : ~AvailFor(d)
          /\ CrDaClientSocketIsPcktAvail(c)
          /\ Track
    \/ \E c \in InStreams :
          /\ AvailFor(c)
          /\ CrDaClientSocketPcktCollect(c)
          /\ Track

SpecFifo == InitReady /\ [][NextFifo]_vars

(* ---------------------------------------------------------------------- *)
(* The calling pattern of the Packet Collect                               *)
(* ---------------------------------------------------------------------- *)

\* the poll has just called CrFwInStreamPcktAvail on InStream c
NotifiedFor(c) == last.op = "poll" /\ last.notify = << c >>

\* InStream c is about to collect the packet it was told of
MustCollect(c) == AvailFor(c) \/ NotifiedFor(c)

\* the Packet Collect of an InStream is called only after the poll has
\* notified the InStream or after its Packet Available Check has returned
\* true, and then at once
NextPattern ==
    \/ \E p \in Packets :
          /\ \A c \in InStreams : ~MustCollect(c)
          /\ Arrive(p)
          /\ UNCHANGED histVars
    \/ /\ \A c \in InStreams : ~MustCollect(c)
       /\ CrDaClientSocketPoll
       /\ UNCHANGED histVars
    \/ \E c \in InStreams :
          /\ \A d \in InStreams : ~MustCollect(d)
          /\ CrDaClientSocketIsPcktAvail(c)
          /\ UNCHANGED histVars
    \/ \E c \in InStreams :
          /\ MustCollect(c)
          /\ CrDaClientSocketPcktCollect(c)
          /\ UNCHANGED histVars

SpecPattern == InitReady /\ [][NextPattern]_vars

(* ---------------------------------------------------------------------- *)
(* Packets of any content, a first byte of zero included                   *)
(* ---------------------------------------------------------------------- *)

\* what the server may send: the first byte of a packet is not constrained
AnyPackets == (0..MaxFirstByte) \X SrcTags

NextZero ==
    \/ \E p \in AnyPackets : Arrive(p) /\ UNCHANGED histVars
    \/ \E c \in InStreams : CrDaClientSocketIsPcktAvail(c) /\ UNCHANGED histVars
    \/ \E c \in InStreams : CrDaClientSocketPcktCollect(c) /\ UNCHANGED histVars
    \/ CrDaClientSocketPoll /\ UNCHANGED histVars

SpecZero == InitReady /\ [][NextZero]_vars

(* ---------------------------------------------------------------------- *)
(* The module shared by InStreams of which one has been shut down          *)
(* ---------------------------------------------------------------------- *)

\* the operations which access the Read Buffer or the socket
SharedOps == {"isAvail", "collect", "poll", "config", "handover"}

\* an operation called for InStream c, which is still configured, after the
\* shutdown of another component has closed the socket: no operation checks
\* that the socket and the Read Buffer still exist, so the call accesses
\* the closed socket or the released Read Buffer and its result ok is
\* whatever that access yields
UseAfterShutdown(c, name, ok) ==
    /\ cmpState[c] = "configured"
    /\ sockHandle /= "live"
    /\ last' = [Op(name, c) EXCEPT !.ok = ok]
    /\ UNCHANGED << readBuffer, inQ >>
    /\ UNCHANGED lifeVars

NextShared ==
    \/ Next
    \/ \E c \in InStreams, name \in SharedOps, ok \in BOOLEAN :
          UseAfterShutdown(c, name, ok) /\ UNCHANGED histVars

SpecShared == Init /\ [][NextShared]_vars

(* ---------------------------------------------------------------------- *)
(* The server socket is closed before or after the client socket           *)
(* ---------------------------------------------------------------------- *)

\* the server socket sends packet p, which arrives at the client socket
ServerSend(p) ==
    /\ ~serverClosed
    /\ Len(sent) < MaxSent
    /\ Arrive(p)
    /\ sent' = Append(sent, p)
    /\ UNCHANGED << rcvd, got, serverClosed >>

\* the server socket is closed
ServerClose ==
    /\ ~serverClosed
    /\ serverClosed' = TRUE
    /\ last' = Op("serverClose", 0)
    /\ UNCHANGED << readBuffer, inQ, rcvd, got, sent >>
    /\ UNCHANGED lifeVars

\* the record of the packets returned by the Packet Collect, after the
\* operation recorded in last'
TrackGot ==
    /\ got' = IF last'.op = "collect" /\ last'.pckt /= NoPckt
              THEN Append(got, last'.pckt) ELSE got
    /\ UNCHANGED << rcvd, serverVars >>

NextClose ==
    \/ \E p \in OwnedPackets : ServerSend(p)
    \/ ServerClose
    \/ \E c \in InStreams :
          CrDaClientSocketShutdownAction(c) /\ UNCHANGED histVars
    \/ \E c \in InStreams :
          InUse(c) /\ CrDaClientSocketIsPcktAvail(c) /\ UNCHANGED histVars
    \/ \E c \in InStreams :
          /\ InUse(c)
          /\ Len(got) <= MaxSent
          /\ CrDaClientSocketPcktCollect(c)
          /\ TrackGot
    \/ /\ \E c \in InStreams : InUse(c)
       /\ CrDaClientSocketPoll
       /\ UNCHANGED histVars

SpecClose == InitReady /\ [][NextClose]_vars

(* ---------------------------------------------------------------------- *)
(* The polled socket and its InStreams under fair scheduling               *)
(* ---------------------------------------------------------------------- *)

\* the poll called by the scheduler
LivePoll ==
    /\ \A c \in InStreams : ~MustCollect(c)
    /\ CrDaClientSocketPoll
    /\ UNCHANGED histVars

\* the Packet Available Check called by InStream c
LiveIsPcktAvail(c) ==
    /\ \A d \in InStreams : ~MustCollect(d)
    /\ CrDaClientSocketIsPcktAvail(c)
    /\ UNCHANGED histVars

\* the Packet Collect called by InStream c, which has been notified by the
\* poll or whose Packet Available Check has returned true
LiveCollect(c) ==
    /\ MustCollect(c)
    /\ CrDaClientSocketPcktCollect(c)
    /\ TrackGot

NextLive ==
    \/ \E p \in OwnedPackets :
          /\ \A c \in InStreams : ~MustCollect(c)
          /\ ServerSend(p)
    \/ LivePoll
    \/ \E c \in InStreams : LiveIsPcktAvail(c)
    \/ \E c \in InStreams : LiveCollect(c)

\* the scheduler keeps calling the poll, and every InStream keeps calling
\* its Packet Available Check and collects when it is told of a packet
SpecLive ==
    /\ InitReady
    /\ [][NextLive]_vars
    /\ WF_vars(LivePoll)
    /\ \A c \in InStreams : WF_vars(LiveIsPcktAvail(c))
    /\ \A c \in InStreams : WF_vars(LiveCollect(c))

(* ---------------------------------------------------------------------- *)
(* The Initialization Check over the settings of the module                *)
(* ---------------------------------------------------------------------- *)

\* the maximum packet lengths tried: around the limit
PcktMaxLengths ==
    (PcktLengthLimit - MaxLengthSpread)..(PcktLengthLimit + MaxLengthSpread)

\* the port numbers tried
Ports == (MinPort + 1)..(MinPort + MaxPorts)

\* the host names tried
HostNames == {"localhost", "server"}

\* before the port number and the host name are set, for every maximum
\* length of a packet
InitUnset ==
    /\ sockHandle = "none"
    /\ connected = FALSE
    /\ bufAllocated = FALSE
    /\ readBuffer = Released
    /\ inQ = << >>
    /\ cmpState = [c \in InStreams |-> "created"]
    /\ outcome = [c \in InStreams |-> "none"]
    /\ nSockCreate = 0
    /\ nSockClose = 0
    /\ nBufAlloc = 0
    /\ nBufFree = 0
    /\ nFail = 0
    /\ port = 0
    /\ hostName = ""
    /\ pcktMaxLength \in PcktMaxLengths
    /\ rcvd = << >>
    /\ got = << >>
    /\ serverClosed = FALSE
    /\ sent = << >>
    /\ last = NoOp

NextCheck ==
    \/ \E n \in Ports : CrDaClientSocketSetPort(n) /\ UNCHANGED histVars
    \/ \E h \in HostNames : CrDaClientSocketSetHost(h) /\ UNCHANGED histVars
    \/ \E c \in InStreams : CrDaClientSocketInitCheck(c) /\ UNCHANGED histVars

SpecCheck == InitUnset /\ [][NextCheck]_vars

(* ---------------------------------------------------------------------- *)
(* Properties                                                              *)
(* ---------------------------------------------------------------------- *)

\* the source of the InStream which called the last operation
LastSrc == InStreamSrc[last.c]

C2_OnePcktNoCrossCollect ==
    /\ readBuffer = Released \/ readBuffer \in BufContents
    /\ (last.op = "collect" /\ last.pckt /= NoPckt) =>
           GetSrc(last.pckt) = LastSrc

\* C2 witness: InStream 2 collected a packet while a packet of source 1 was
\* pending at the socket
C2_Witness ==
    /\ last.op = "collect" /\ last.c = 2 /\ last.pckt /= NoPckt
    /\ inQ /= << >> /\ GetSrc(Head(inQ)) = 1

\* C3: when the Read Buffer is FULL with a packet of source A, isAvailable(B)
\* with B different from A leaves that packet in the Read Buffer unless the
\* read it performs returns a packet for B.
C3_NoOverwriteUnlessReadForB ==
    (/\ last.op = "isAvail"
     /\ IsFull(last.pre) /\ GetSrc(last.pre) /= LastSrc
     /\ ~(last.rd /= NoPckt /\ GetSrc(last.rd) = LastSrc))
    => readBuffer = last.pre

\* C4: while the Read Buffer is FULL with a packet of source A, no
\* isAvailable(B) with B different from A returns true and no collect(B)
\* returns a packet.
C4_StrictSerialization ==
    (/\ last.op \in {"isAvail", "collect"}
     /\ IsFull(last.pre) /\ GetSrc(last.pre) /= LastSrc)
    => (~last.ok /\ last.pckt = NoPckt)

\* C5: when the Read Buffer is FULL and tagged S, collect(S) returns a newly
\* made packet whose bytes are those of the Read Buffer and leaves the Read
\* Buffer EMPTY.
C5_CollectCopiesAndClears ==
    (/\ last.op = "collect"
     /\ IsFull(last.pre) /\ GetSrc(last.pre) = LastSrc)
    => (/\ last.made
        /\ last.pckt = last.pre
        /\ readBuffer /= Released
        /\ ~IsFull(readBuffer))

\* C5 witness: a collect found the Read Buffer FULL with its source
C5_Witness ==
    /\ last.op = "collect"
    /\ IsFull(last.pre) /\ GetSrc(last.pre) = LastSrc
    /\ last.pckt /= NoPckt

\* C6: when the Read Buffer is EMPTY or FULL with another source, collect(S)
\* returns the null packet, reads nothing from the socket and leaves the
\* Read Buffer as it is.
C6_CollectNullNoEffect ==
    [][(/\ last'.op = "collect"
        /\ ~(IsFull(readBuffer) /\ GetSrc(readBuffer) = InStreamSrc[last'.c]))
       => (/\ last'.pckt = NoPckt
           /\ ~last'.made
           /\ ~last'.didRead
           /\ readBuffer' = readBuffer
           /\ inQ' = inQ)]_vars

\* C6 witness: a collect found the Read Buffer EMPTY, its first byte cleared
\* and the source left in it equal to the requested source, while a packet
\* was pending at the socket
C6_Witness ==
    /\ last.op = "collect"
    /\ last.pre /= Released /\ ~IsFull(last.pre) /\ GetSrc(last.pre) = LastSrc
    /\ last.pckt = NoPckt
    /\ inQ /= << >>

\* C7: an initialization which finds the socket handle live executes the
\* base Initialization Action once, reports success, and neither creates a
\* socket nor allocates or alters the Read Buffer; at most one socket handle
\* is live in every state.
C7_InitIdempotent ==
    /\ [](nSockCreate - nSockClose <= 1)
    /\ [][(last'.op = "init" /\ sockHandle = "live")
          => (/\ last'.hooks = 1
              /\ last'.ok
              /\ outcome'[last'.c] = "success"
              /\ nSockCreate' = nSockCreate
              /\ nBufAlloc' = nBufAlloc
              /\ readBuffer' = readBuffer
              /\ sockHandle' = "live")]_vars

\* C7 witness: an initialization found the socket handle live
C7_Witness == last.op = "init" /\ last.live /\ last.hooks = 1

\* C8: an initialization reports success only if the Read Buffer was
\* allocated, the socket was created and the connect succeeded.
C8_SuccessOnlyIfAllSucceeded ==
    (last.op = "init" /\ last.ok) =>
        (bufAllocated /\ sockHandle = "live" /\ connected)

\* C9: a shutdown executes the base Shutdown Action once; the one which
\* finds the socket handle live releases the Read Buffer and closes the
\* socket once, every other one does neither; no socket is closed and no
\* Read Buffer released which was not created before.
C9_ShutdownIdempotent ==
    /\ [](nSockClose <= nSockCreate /\ nBufFree <= nBufAlloc)
    /\ [][last'.op = "shutdown"
          => (/\ last'.hooks = 1
              /\ IF sockHandle = "live"
                 THEN /\ nSockClose' = nSockClose + 1
                      /\ nBufFree' = nBufFree + 1
                      /\ readBuffer' = Released
                      /\ sockHandle' = "none"
                 ELSE /\ nSockClose' = nSockClose
                      /\ nBufFree' = nBufFree
                      /\ readBuffer' = readBuffer
                      /\ sockHandle' = sockHandle)]_vars

\* C9 witness: a shutdown by an InStream found the socket already closed by
\* the shutdown of the other InStream
C9_Witness ==
    /\ last.op = "shutdown" /\ ~last.live /\ last.hooks = 1
    /\ nSockClose = 1
    /\ \A c \in InStreams : cmpState[c] = "shutdown"

\* C10: a configuration leaves the Read Buffer EMPTY whatever it held
\* before and executes the base Configuration Action once; a configuration
\* which follows a configuration leaves the Read Buffer as the first left it.
C10_ConfigClears ==
    [][last'.op = "config"
       => (/\ readBuffer' /= Released
           /\ ~IsFull(readBuffer')
           /\ last'.hooks = 1
           /\ (last.op = "config" => readBuffer' = readBuffer))]_vars

\* C10 witness: a configuration found the Read Buffer FULL
C10_Witness ==
    /\ last.op = "config"
    /\ IsFull(last.pre)
    /\ ~IsFull(readBuffer)

\* C11: the Initialization Check succeeds if and only if the maximum length
\* of a packet is smaller than 256 and the port number and the host name
\* have been set; it fails at 256 and succeeds at 255 when both are set.
C11_InitCheckIff ==
    last.op = "initCheck" =>
        /\ last.ok <=> (pcktMaxLength < 256 /\ port /= 0 /\ hostName /= "")
        /\ (outcome[last.c] = "success") <=> last.ok
        /\ (pcktMaxLength = 256 => ~last.ok)
        /\ (pcktMaxLength = 255 /\ port /= 0 /\ hostName /= "") => last.ok

\* C11 witness: the check failed at the maximum packet length 256 with the
\* port number and the host name set
C11_Witness ==
    /\ last.op = "initCheck"
    /\ pcktMaxLength = 256 /\ port /= 0 /\ hostName /= ""
    /\ ~last.ok

\* C12: the hand-over returns success only when its single write accepted
\* the whole packet; a partial write and a write which would block return
\* failure, without a second write; the Read Buffer is never changed.
C12_HandoverOneWrite ==
    [][last'.op = "handover"
       => (/\ last'.ok <=> (last'.written = Len(last'.pckt))
           /\ last'.writes = 1
           /\ last'.reads = 0
           /\ readBuffer' = readBuffer
           /\ inQ' = inQ)]_vars

\* C12 witness: a partial write returned failure while the Read Buffer was
\* FULL
C12_Witness ==
    /\ last.op = "handover"
    /\ last.written > 0 /\ last.written < Len(last.pckt)
    /\ ~last.ok
    /\ IsFull(readBuffer)

\* the state of InitReady, but for the record of the last operation, is a
\* state of the module in its mode of use
ReadyReached ==
    /\ sockHandle = "live" /\ connected /\ bufAllocated
    /\ ~IsFull(readBuffer) /\ readBuffer /= Released
    /\ inQ = << >>
    /\ \A c \in InStreams : cmpState[c] = "configured" /\ outcome[c] = "success"
    /\ nSockCreate = 1 /\ nSockClose = 0 /\ nBufAlloc = 1 /\ nBufFree = 0
    /\ nFail = 0

\* C13: a poll reads the socket exactly once; if the read returns a packet,
\* the packet is placed into the Read Buffer and CrFwInStreamPcktAvail is
\* called exactly once, on the InStream associated to the source of the
\* packet and on no other; if the read returns nothing, no InStream is
\* notified and the Read Buffer is left as it is.
C13_PollNotifiesOwner ==
    [][last'.op = "poll"
       => (/\ last'.reads = 1
           /\ IF inQ = << >>
              THEN /\ last'.notify = << >>
                   /\ readBuffer' = readBuffer
                   /\ inQ' = inQ
              ELSE /\ readBuffer' = Head(inQ)
                   /\ inQ' = Tail(inQ)
                   /\ \A i \in InStreams :
                         InStreamSrc[i] = GetSrc(Head(inQ))
                             => last'.notify = << i >>)]_vars

\* C13 witness: a poll read a packet of source 2 and notified InStream 2
\* only, a packet of source 1 being still pending at the socket
C13_Witness ==
    /\ last.op = "poll"
    /\ last.rd /= NoPckt /\ GetSrc(last.rd) = 2
    /\ last.notify = << 2 >>
    /\ inQ /= << >> /\ GetSrc(Head(inQ)) = 1

\* sequence a is the beginning of sequence b
IsPrefix(a, b) == Len(a) <= Len(b) /\ a = SubSeq(b, 1, Len(a))

\* C14: when each InStream calls isAvailable and, on true, collect at once,
\* the packets returned by collect are the packets read from the socket, in
\* the order of the socket, none skipped, reordered or repeated.
C14_FifoDelivery == IsPrefix(got, rcvd)

C16_AvailFullNoRead ==
    [][(/\ last'.op = "isAvail"
        /\ IsFull(readBuffer)
        /\ GetSrc(readBuffer) = InStreamSrc[last'.c])
       => (/\ last'.ok
           /\ last'.reads = 0
           /\ ~last'.didRead
           /\ inQ' = inQ
           /\ readBuffer' = readBuffer)]_vars

\* C16 witness: isAvailable(S) found the Read Buffer FULL and tagged S while
\* a packet was pending at the socket, and returned true
C16_Witness ==
    /\ last.op = "isAvail"
    /\ IsFull(last.pre)
    /\ GetSrc(last.pre) = InStreamSrc[last.c]
    /\ last.ok
    /\ inQ /= << >>
    /\ readBuffer = last.pre

\* C17: when the Read Buffer is EMPTY and no data are pending at the socket,
\* isAvailable(S) returns false for every S and leaves the Read Buffer
\* EMPTY.
C17_AvailEmptyNoData ==
    [][(/\ last'.op = "isAvail"
        /\ ~IsFull(readBuffer)
        /\ inQ = << >>)
       => (/\ ~last'.ok
           /\ ~IsFull(readBuffer')
           /\ readBuffer' = readBuffer)]_vars

\* C17 witness: isAvailable(S) found the Read Buffer EMPTY, its read
\* returned nothing, and it returned false with the Read Buffer still EMPTY
C17_Witness ==
    /\ last.op = "isAvail"
    /\ ~IsFull(last.pre)
    /\ last.didRead
    /\ last.rd = NoPckt
    /\ ~last.ok
    /\ ~IsFull(readBuffer)

\* C18: every read which returns data leaves the Read Buffer FULL, for every
\* packet received from the socket, one whose first byte is zero included.
C18_ReadLeavesFull ==
    (last.didRead /\ last.rd /= NoPckt) => IsFull(readBuffer)

\* C19: once one InStream has shut the module down, no later isAvailable,
\* collect, poll, configuration or hand-over called for an InStream which has
\* not itself been shut down accesses the released Read Buffer or the closed
\* socket: every such operation finds the socket open and the Read Buffer
\* allocated.
C19_NoUseAfterShutdown ==
    last.op \in SharedOps => (last.live /\ last.pre /= Released)

\* C20: a poll called while the Read Buffer is FULL with a packet which has
\* not yet been collected neither overwrites nor discards that packet: the
\* packet is still in the Read Buffer after the poll.
C20_PollKeepsPckt ==
    (last.op = "poll" /\ IsFull(last.pre)) => readBuffer = last.pre

\* the number of times packet p occurs in the sequence s
Count(s, p) == Cardinality({i \in DOMAIN s : s[i] = p})

\* no packet has been returned by the Packet Collect more often than it has
\* been sent by the server socket
AtMostOnce == \A i \in DOMAIN got : Count(got, got[i]) <= Count(sent, got[i])

\* C21: no packet is delivered twice, provided the client socket is shut
\* down before the server socket: while the server socket is open no packet
\* has been returned by collect more often than it was sent, and once the
\* client socket is shut down collect returns no packet any more; if the
\* server socket is closed first, a later read of the client socket, with
\* nothing pending, reads the last packet sent again.
C21_NoDoubleDelivery ==
    [][/\ ~serverClosed' => AtMostOnce'
       /\ sockHandle /= "live" => got' = got
       /\ (/\ serverClosed /\ sockHandle = "live"
           /\ inQ = << >> /\ sent /= << >>
           /\ last'.didRead)
          => last'.rd = sent[Len(sent)]]_vars

\* C21 witness: the server socket was closed first, and a packet which was
\* sent once has been returned by collect twice
C21_Witness ==
    /\ serverClosed
    /\ last.op = "collect" /\ last.pckt /= NoPckt
    /\ Count(got, last.pckt) = 2
    /\ Count(sent, last.pckt) = 1

\* C22: when the scheduler keeps calling the poll and every InStream keeps
\* checking and collecting for its own source, every packet which the
\* socket delivers for a source with an InStream is eventually returned by
\* collect: the n-th sending of packet p leads to its n-th collection.
C22_EveryPcktCollected ==
    \A p \in OwnedPackets : \A n \in 1..MaxSent :
        (Count(sent, p) >= n) ~> (Count(got, p) >= n)

====
